---- MODULE Spec2Model ----
(***************************************************************************)
(* State-machine model of the HTD Lync6 protocol client                    *)
(* (src/htd_lync6/htd_lync6.py, class HtdLync6Client).                     *)
(*                                                                         *)
(* Python values are modelled as follows.  An optional value is a sequence *)
(* of length 0 (None) or 1 (the value).  A bytes object is a sequence of   *)
(* integers in 0..255; Python index i is TLA+ index i+1.  A returned       *)
(* reference into self.zones is kept as a reference (kind "entry" or       *)
(* "table"), because the code returns the live dictionary, not a copy.     *)
(***************************************************************************)
EXTENDS Integers, Sequences, FiniteSets, TLC

VARIABLES
    zones,   \* self.zones: zone id -> entry
    pc,      \* position of the sequential caller: "idle" or "returned"
    last,    \* the public call that has just returned (its frame, I/O, result)
    th       \* concurrent contexts inside parse_message (specification SpecConc)

vars == <<zones, pc, last, th>>

----------------------------------------------------------------------------
(* Bounds of the model *)

\* longest run of extra bytes the device puts before a record or between records
MaxPad == 1

\* most 14-byte records in one generated response
MaxRecs == 2

----------------------------------------------------------------------------
(* Python values *)

None == <<>>

Some(v) == <<v>>

ZoneIds == 1..6

RecordLen == 14

\* the entry built for key k by the dict comprehension of __init__
InitEntry(k) ==
    [zone |-> k, power |-> None, input |-> None, vol |-> None,
     mute |-> None, source |-> None]

InitZones == [k \in ZoneIds |-> InitEntry(k)]

----------------------------------------------------------------------------
(* checksum: sum(message) & 0xFF *)

RECURSIVE SumSeq(_)
SumSeq(s) == IF s = <<>> THEN 0 ELSE Head(s) + SumSeq(Tail(s))

\* the sum without the & 0xFF
checksum_unmasked(message) == SumSeq(message)

checksum(message) == SumSeq(message) % 256

----------------------------------------------------------------------------
(* parse_message: one 14-byte chunk.  No marker byte is examined; only the *)
(* length and the zone byte decide whether the chunk is applied.           *)

decode_power(b4) == IF b4 % 2 = 1 THEN "on" ELSE "off"

\* mute read from bit 0, the power bit
decode_mute_from_bit0(b4) == IF b4 % 2 = 1 THEN "on" ELSE "off"

decode_mute(b4) == IF (b4 \div 2) % 2 = 1 THEN "on" ELSE "off"

decode_source(b8) == b8 + 1

decode_vol(b9) == IF b9 # 0 THEN b9 - 196 ELSE 0

\* apply_record with the assignment of line 73 left out
apply_record_without_mute(entry, message) ==
    [entry EXCEPT !.power = Some(decode_power(message[5])),
                  !.source = Some(decode_source(message[9])),
                  !.vol = Some(decode_vol(message[10]))]

\* apply_record that also files the decoded source under the reserved input key
apply_record_sets_input(entry, message) ==
    [entry EXCEPT !.power = Some(decode_power(message[5])),
                  !.input = Some(decode_source(message[9])),
                  !.source = Some(decode_source(message[9])),
                  !.vol = Some(decode_vol(message[10])),
                  !.mute = Some(decode_mute(message[5]))]

\* lines 70-73: the four assignments into self.zones[zone]
apply_record(entry, message) ==
    [entry EXCEPT !.power = Some(decode_power(message[5])),
                  !.source = Some(decode_source(message[9])),
                  !.vol = Some(decode_vol(message[10])),
                  !.mute = Some(decode_mute(message[5]))]

zone_accepted(zone) == zone \in ZoneIds

parse_message(zs, message) ==
    IF Len(message) # RecordLen
    THEN [zones |-> zs, ok |-> FALSE]
    ELSE LET zone == message[3]
         IN  IF zone_accepted(zone)
             THEN [zones |-> [zs EXCEPT ![zone] = apply_record(zs[zone], message)],
                   ok |-> TRUE]
             ELSE [zones |-> zs, ok |-> FALSE]

----------------------------------------------------------------------------
(* parse: chunking of the response and the returned reference *)

Min(a, b) == IF a < b THEN a ELSE b

\* message[i:i + 14] for a Python offset i < len(message)
Chunk(message, i) == SubSeq(message, i + 1, Min(i + RecordLen, Len(message)))

\* range(14, len(message), 14)
first_chunk_offset == 14

\* the loop with each chunk filed under its position in the response (the
\* chunk at offset 14 under key 1, at 28 under key 2, ...) instead of its zone byte
RECURSIVE parse_chunks_by_position(_, _, _)
parse_chunks_by_position(zs, message, i) ==
    IF i >= Len(message)
    THEN zs
    ELSE LET chunk == Chunk(message, i)
             k == i \div RecordLen
         IN  parse_chunks_by_position(
                 IF Len(chunk) = RecordLen /\ zone_accepted(chunk[3]) /\ k \in ZoneIds
                 THEN [zs EXCEPT ![k] = apply_record(zs[k], chunk)]
                 ELSE zs,
                 message, i + RecordLen)

\* the for loop of lines 45-47 over the chunks from Python offset i on
RECURSIVE parse_chunks(_, _, _)
parse_chunks(zs, message, i) ==
    IF i >= Len(message)
    THEN zs
    ELSE parse_chunks(parse_message(zs, Chunk(message, i)).zones, message, i + RecordLen)

\* parse_zones with an incomplete response treated as "state lost"
parse_zones_reset_on_short(zs, message) ==
    IF Len(message) > RecordLen
    THEN parse_chunks(zs, message, first_chunk_offset)
    ELSE IF Len(message) = RecordLen
         THEN parse_message(zs, message).zones
         ELSE InitZones

parse_zones(zs, message) ==
    IF Len(message) > RecordLen
    THEN parse_chunks(zs, message, first_chunk_offset)
    ELSE IF Len(message) = RecordLen
         THEN parse_message(zs, message).zones
         ELSE zs

NoneRet == [kind |-> "none", zone |-> 0, exc |-> ""]

\* line 54: self.zones if zone_number is None else self.zones[zone_number]
parse_return(zone_number) ==
    IF zone_number = None
    THEN [kind |-> "table", zone |-> 0, exc |-> ""]
    ELSE IF zone_number[1] \in ZoneIds
         THEN [kind |-> "entry", zone |-> zone_number[1], exc |-> ""]
         ELSE [kind |-> "raise", zone |-> zone_number[1], exc |-> "KeyError"]

parse(zs, message, zone_number) ==
    [zones |-> parse_zones(zs, message), ret |-> parse_return(zone_number)]

----------------------------------------------------------------------------
(* send_command: one connect / sendall / recv exchange.  env is what the   *)
(* network does to this call: the outcome of create_connection, of sendall *)
(* and of recv, and the bytes recv returns.                                *)

\* exceptions the except clause of line 184 catches: socket.timeout, ConnectionError
Caught == {"timeout", "refused", "reset"}

\* an OSError that is neither (no route to host, name resolution) is not caught
ConnOutcomes == {"ok", "refused", "timeout", "oserror"}

SendOutcomes == {"ok", "reset", "timeout"}

RecvOutcomes == {"data", "reset", "timeout"}

Raise(e) == [kind |-> "raise", zone |-> 0, exc |-> e]

\* the result of the try block when the exchange raised e
on_exception(e) == IF e \in Caught THEN NoneRet ELSE Raise("OSError")

\* line 174: cmd.append(self.checksum(cmd))
with_checksum(cmd) == Append(cmd, checksum(cmd))

\* send_command with a failed exchange treated as "state lost": the table is
\* rebuilt as at construction whenever no response was read
send_command_reset_on_failure(zs, cmd, zone_number, env) ==
    LET frame == with_checksum(cmd)
    IN  IF env.conn # "ok"
        THEN [zones |-> InitZones, sent |-> <<>>, io |-> <<"connect_failed">>,
              response |-> <<>>,
              inner |-> on_exception(env.conn), ret |-> on_exception(env.conn)]
        ELSE IF env.send # "ok"
        THEN [zones |-> InitZones, sent |-> <<>>,
              io |-> <<"connect", "send_failed", "close">>, response |-> <<>>,
              inner |-> on_exception(env.send), ret |-> on_exception(env.send)]
        ELSE IF env.recv # "data"
        THEN [zones |-> InitZones, sent |-> frame,
              io |-> <<"connect", "send", "recv_failed", "close">>, response |-> <<>>,
              inner |-> on_exception(env.recv), ret |-> on_exception(env.recv)]
        ELSE LET r == parse(zs, env.data, zone_number)
             IN  [zones |-> r.zones, sent |-> frame,
                  io |-> <<"connect", "send", "recv", "close">>,
                  response |-> env.data, inner |-> r.ret, ret |-> r.ret]

\* send_command with the socket used without the with block: a failed recv
\* leaves through the except clause with the connection still open
send_command_without_with(zs, cmd, zone_number, env) ==
    LET frame == with_checksum(cmd)
    IN  IF env.conn # "ok"
        THEN [zones |-> zs, sent |-> <<>>, io |-> <<"connect_failed">>,
              response |-> <<>>,
              inner |-> on_exception(env.conn), ret |-> on_exception(env.conn)]
        ELSE IF env.send # "ok"
        THEN [zones |-> zs, sent |-> <<>>, io |-> <<"connect", "send_failed">>,
              response |-> <<>>,
              inner |-> on_exception(env.send), ret |-> on_exception(env.send)]
        ELSE IF env.recv # "data"
        THEN [zones |-> zs, sent |-> frame, io |-> <<"connect", "send", "recv_failed">>,
              response |-> <<>>,
              inner |-> on_exception(env.recv), ret |-> on_exception(env.recv)]
        ELSE LET r == parse(zs, env.data, zone_number)
             IN  [zones |-> r.zones, sent |-> frame,
                  io |-> <<"connect", "send", "recv", "close">>,
                  response |-> env.data, inner |-> r.ret, ret |-> r.ret]

send_command(zs, cmd, zone_number, env) ==
    LET frame == with_checksum(cmd)
    IN  IF env.conn # "ok"
        THEN [zones |-> zs, sent |-> <<>>, io |-> <<"connect_failed">>,
              response |-> <<>>,
              inner |-> on_exception(env.conn), ret |-> on_exception(env.conn)]
        ELSE IF env.send # "ok"
        THEN [zones |-> zs, sent |-> <<>>, io |-> <<"connect", "send_failed", "close">>,
              response |-> <<>>,
              inner |-> on_exception(env.send), ret |-> on_exception(env.send)]
        ELSE IF env.recv # "data"
        THEN [zones |-> zs, sent |-> frame, io |-> <<"connect", "send", "recv_failed", "close">>,
              response |-> <<>>,
              inner |-> on_exception(env.recv), ret |-> on_exception(env.recv)]
        ELSE LET r == parse(zs, env.data, zone_number)
             IN  [zones |-> r.zones, sent |-> frame,
                  io |-> <<"connect", "send", "recv", "close">>,
                  response |-> env.data, inner |-> r.ret, ret |-> r.ret]

\* a builder that returns before send_command: nothing sent, nothing changed
no_op(zs) ==
    [zones |-> zs, sent |-> <<>>, io |-> <<>>, response |-> <<>>,
     inner |-> NoneRet, ret |-> NoneRet]

\* a builder that calls send_command and drops its result (falls off the end);
\* inner keeps what send_command itself returned
discard(r) == [r EXCEPT !.ret = IF r.ret.kind = "raise" THEN r.ret ELSE NoneRet]

----------------------------------------------------------------------------
(* Command builders *)

valid_zone(zone) == zone \in ZoneIds

valid_input(input) == input \in 1..12

valid_volume(vol) == vol \in 0..100

MAX_HTD_VOLUME == 60

input_code(input) == IF input < 13 THEN input + 15 ELSE input + 86

\* the encoding without the special case of the top level
volume_code_no_max_case(vol) == 255 - (59 - (MAX_HTD_VOLUME * vol) \div 100)

volume_code(vol) ==
    LET volume_int == (MAX_HTD_VOLUME * vol) \div 100
    IN  IF volume_int = 60 THEN 0 ELSE 255 - (59 - volume_int)

\* set_source with the zone left unexamined, as set_volume leaves it
set_source_guard_input_only(zone, input) == valid_input(input)

set_source_guard(zone, input) == valid_zone(zone) /\ valid_input(input)

set_source(zs, zone, input, env) ==
    IF ~set_source_guard(zone, input)
    THEN no_op(zs)
    ELSE discard(send_command(zs, <<2, 0, zone, 4, input_code(input)>>, Some(zone), env))

\* set_volume validates the percent only; the zone is not examined
set_volume_guard(zone, vol) == valid_volume(vol)

\* bytearray([...]) accepts only elements in range(256)
is_bytes(cmd) == \A i \in 1..Len(cmd) : cmd[i] \in 0..255

\* a builder that raises e before send_command: nothing sent, nothing changed
raised(zs, e) ==
    [zones |-> zs, sent |-> <<>>, io |-> <<>>, response |-> <<>>,
     inner |-> NoneRet, ret |-> Raise(e)]

\* the zone is the only element of a command that no builder has checked
\* when bytearray sees it: line 117 raises ValueError for a zone outside 0..255
set_volume(zs, zone, vol, env) ==
    IF ~set_volume_guard(zone, vol)
    THEN no_op(zs)
    ELSE LET cmd == <<2, 1, zone, 21, volume_code(vol)>>
         IN  IF ~is_bytes(cmd)
             THEN raised(zs, "ValueError")
             ELSE discard(send_command(zs, cmd, Some(zone), env))

toggle_mute(zs, zone, mute, env) ==
    IF ~valid_zone(zone)
    THEN no_op(zs)
    ELSE discard(send_command(zs, <<2, 0, zone, 4, IF mute # 0 THEN 30 ELSE 31>>,
                              Some(zone), env))

query_zone(zs, zone, env) ==
    IF ~valid_zone(zone)
    THEN no_op(zs)
    ELSE send_command(zs, <<2, 0, zone, 5, 0>>, Some(zone), env)

query_all(zs, env) == send_command(zs, <<2, 0, 0, 5, 0>>, None, env)

set_power(zs, zone, power, env) ==
    IF ~valid_zone(zone)
    THEN no_op(zs)
    ELSE discard(send_command(zs, <<2, 0, zone, 4, IF power # 0 THEN 87 ELSE 88>>,
                              Some(zone), env))

----------------------------------------------------------------------------
(* What the device and the network can do to one call *)

\* byte layout of a status record: sync, class, zone, type, status, .., source, volume
StatusRecord(b0, z, b4, b8, b9) == <<b0, 0, z, 5, b4, 0, 0, 0, b8, b9, 0, 0, 0, 0>>

\* records the device side is let to send: well-formed ones for zones 2 and 5,
\* one naming zone 7, one naming zone 0, one with a wrong sync byte naming
\* zone 3, a well-formed one for zone 1 whose volume byte is below 196, and a
\* well-formed one for zone 4 whose source byte is 12 (a thirteenth source)
DeviceRecords ==
    { StatusRecord(2, 2, 3, 3, 200), StatusRecord(2, 5, 0, 0, 0),
      StatusRecord(2, 7, 3, 3, 200), StatusRecord(2, 0, 3, 3, 200),
      StatusRecord(255, 3, 3, 3, 200), StatusRecord(2, 1, 1, 11, 100),
      StatusRecord(2, 4, 2, 12, 196) }

\* n bytes that belong to no record
Pad(n) == [i \in 1..n |-> 255]

\* recs joined, each record preceded by `gap` extra bytes (the first by `lead`)
RECURSIVE Join(_, _, _)
Join(recs, lead, gap) ==
    IF recs = <<>> THEN <<>>
    ELSE Pad(lead) \o Head(recs) \o Join(Tail(recs), gap, gap)

RecordSeqs == UNION { [1..k -> DeviceRecords] : k \in 1..MaxRecs }

FullResponses ==
    { Join(recs, lead, gap) : recs \in RecordSeqs, lead \in 0..MaxPad, gap \in 0..MaxPad }

\* a read that returns fewer than 14 bytes: the first n bytes of a record
ShortResponses ==
    { SubSeq(r, 1, n) : r \in DeviceRecords, n \in 0..(RecordLen - 1) }

Responses == FullResponses \cup ShortResponses

Env(c, s, r, d) == [conn |-> c, send |-> s, recv |-> r, data |-> d]

Envs ==
    { Env(c, "-", "-", <<>>) : c \in ConnOutcomes \ {"ok"} }
    \cup { Env("ok", s, "-", <<>>) : s \in SendOutcomes \ {"ok"} }
    \cup { Env("ok", "ok", r, <<>>) : r \in RecvOutcomes \ {"data"} }
    \cup { Env("ok", "ok", "data", d) : d \in Responses }

\* an env for a call that returns before any I/O
NoEnv == Env("-", "-", "-", <<>>)

ZoneArgs == {0, 2, 6, 7}

FlagArgs == {0, 1}

InputArgs == {0, 3, 13}

VolumeArgs == {-1, 0, 100, 101}

----------------------------------------------------------------------------
(* The sequential client: one public call at a time *)

NoCall ==
    [op |-> "-", zone |-> None, arg |-> 0,
     sent |-> <<>>, io |-> <<>>, response |-> <<>>,
     inner |-> NoneRet, ret |-> NoneRet]

Returned(op, zone, arg, r) ==
    /\ zones' = r.zones
    /\ last' = [op |-> op, zone |-> zone, arg |-> arg,
                sent |-> r.sent, io |-> r.io, response |-> r.response,
                inner |-> r.inner, ret |-> r.ret]
    /\ pc' = "returned"
    /\ UNCHANGED th

\* the envs that make a difference to a call: none when it returns before I/O
EnvsFor(does_io) == IF does_io THEN Envs ELSE {NoEnv}

SetPower ==
    /\ pc = "idle"
    /\ \E zone \in ZoneArgs, power \in FlagArgs :
            \E env \in EnvsFor(valid_zone(zone)) :
                Returned("set_power", Some(zone), power, set_power(zones, zone, power, env))

ToggleMute ==
    /\ pc = "idle"
    /\ \E zone \in ZoneArgs, mute \in FlagArgs :
            \E env \in EnvsFor(valid_zone(zone)) :
                Returned("toggle_mute", Some(zone), mute, toggle_mute(zones, zone, mute, env))

SetSource ==
    /\ pc = "idle"
    /\ \E zone \in ZoneArgs, input \in InputArgs :
            \E env \in EnvsFor(set_source_guard(zone, input)) :
                Returned("set_source", Some(zone), input, set_source(zones, zone, input, env))

SetVolume ==
    /\ pc = "idle"
    /\ \E zone \in ZoneArgs, vol \in VolumeArgs :
            \E env \in EnvsFor(set_volume_guard(zone, vol)) :
                Returned("set_volume", Some(zone), vol, set_volume(zones, zone, vol, env))

QueryZone ==
    /\ pc = "idle"
    /\ \E zone \in ZoneArgs :
            \E env \in EnvsFor(valid_zone(zone)) :
                Returned("query_zone", Some(zone), 0, query_zone(zones, zone, env))

QueryAll ==
    /\ pc = "idle"
    /\ \E env \in Envs :
            Returned("query_all", None, 0, query_all(zones, env))

\* the caller has read the result and is ready for its next call
CallerResumes ==
    /\ pc = "returned"
    /\ pc' = "idle"
    /\ last' = NoCall
    /\ UNCHANGED <<zones, th>>

Init ==
    /\ zones = InitZones
    /\ pc = "idle"
    /\ last = NoCall
    /\ th = <<>>

Next ==
    \/ SetPower
    \/ ToggleMute
    \/ SetSource
    \/ SetVolume
    \/ QueryZone
    \/ QueryAll
    \/ CallerResumes

Spec == Init /\ [][Next]_vars

----------------------------------------------------------------------------
(* The builders over their whole argument range.  Every zone -1..7 and 256,*)
(* every input 0..13 and every percent -1..101 is passed to the builders;  *)
(* the network lets every frame through and the read times out, except     *)
(* that a set_volume for zone 2 may be answered by a status record of that *)
(* zone whose volume byte repeats the payload byte of the frame.           *)

AllZoneArgs == (-1..7) \cup {256}

AllInputArgs == 0..13

AllVolumeArgs == -1..101

\* the frame is written and recv raises socket.timeout
RecvTimeout == Env("ok", "ok", "timeout", <<>>)

\* the zones whose set_volume the device may answer
EchoZones == {2}

\* the device reports the zone powered on, source 1, with the volume byte it was sent
Echo(zone, vol) == Env("ok", "ok", "data", StatusRecord(2, zone, 1, 0, volume_code(vol)))

FrameEnvs(zone, vol) ==
    IF zone \in EchoZones /\ set_volume_guard(zone, vol)
    THEN {RecvTimeout, Echo(zone, vol)}
    ELSE {RecvTimeout}

SetPowerFrame ==
    /\ pc = "idle"
    /\ \E zone \in AllZoneArgs, power \in FlagArgs :
            Returned("set_power", Some(zone), power,
                     set_power(zones, zone, power, RecvTimeout))

ToggleMuteFrame ==
    /\ pc = "idle"
    /\ \E zone \in AllZoneArgs, mute \in FlagArgs :
            Returned("toggle_mute", Some(zone), mute,
                     toggle_mute(zones, zone, mute, RecvTimeout))

SetSourceFrame ==
    /\ pc = "idle"
    /\ \E zone \in AllZoneArgs, input \in AllInputArgs :
            Returned("set_source", Some(zone), input,
                     set_source(zones, zone, input, RecvTimeout))

SetVolumeFrame ==
    /\ pc = "idle"
    /\ \E zone \in AllZoneArgs, vol \in AllVolumeArgs :
            \E env \in FrameEnvs(zone, vol) :
                Returned("set_volume", Some(zone), vol, set_volume(zones, zone, vol, env))

QueryZoneFrame ==
    /\ pc = "idle"
    /\ \E zone \in AllZoneArgs :
            Returned("query_zone", Some(zone), 0, query_zone(zones, zone, RecvTimeout))

QueryAllFrame ==
    /\ pc = "idle"
    /\ Returned("query_all", None, 0, query_all(zones, RecvTimeout))

NextFrames ==
    \/ SetPowerFrame
    \/ ToggleMuteFrame
    \/ SetSourceFrame
    \/ SetVolumeFrame
    \/ QueryZoneFrame
    \/ QueryAllFrame
    \/ CallerResumes

SpecFrames == Init /\ [][NextFrames]_vars

----------------------------------------------------------------------------
(* Concurrent contexts.  The client holds no lock, so two calls made from  *)
(* different threads interleave statement by statement.  Each context is   *)
(* followed through parse_message, the only code that writes self.zones:   *)
(* the zone check of lines 68-69, then the assignments of lines 70-73, one *)
(* per step.                                                               *)

\* number of execution contexts that call the same client
NumContexts == 2

Contexts == 1..NumContexts

\* the 14-byte responses the contexts' commands receive
ContextRecords ==
    { StatusRecord(2, 2, 3, 3, 200), StatusRecord(2, 2, 0, 0, 0),
      StatusRecord(2, 5, 1, 7, 230), StatusRecord(2, 7, 3, 3, 200) }

ContextIdle == [pc |-> "idle", msg |-> <<>>]

\* lines 64-69 and 79-84: a chunk whose zone is refused returns at once
EnterParseMessage(t) ==
    /\ th[t].pc = "idle"
    /\ \E message \in ContextRecords :
          th' = [th EXCEPT ![t] =
                    IF Len(message) = RecordLen /\ zone_accepted(message[3])
                    THEN [pc |-> "power", msg |-> message]
                    ELSE ContextIdle]
    /\ UNCHANGED <<zones, pc, last>>

AssignField(t, at, field, value, then) ==
    /\ th[t].pc = at
    /\ zones' = [zones EXCEPT ![th[t].msg[3]][field] = Some(value)]
    /\ th' = [th EXCEPT ![t] = IF then = "idle" THEN ContextIdle
                               ELSE [th[t] EXCEPT !.pc = then]]
    /\ UNCHANGED <<pc, last>>

\* line 70
AssignPower(t) == AssignField(t, "power", "power", decode_power(th[t].msg[5]), "source")

\* line 71
AssignSource(t) == AssignField(t, "source", "source", decode_source(th[t].msg[9]), "vol")

\* line 72
AssignVol(t) == AssignField(t, "vol", "vol", decode_vol(th[t].msg[10]), "mute")

\* line 73, then return True
AssignMute(t) == AssignField(t, "mute", "mute", decode_mute(th[t].msg[5]), "idle")

InitConc ==
    /\ zones = InitZones
    /\ pc = "idle"
    /\ last = NoCall
    /\ th = [t \in Contexts |-> ContextIdle]

NextConc ==
    \E t \in Contexts :
        \/ EnterParseMessage(t)
        \/ AssignPower(t)
        \/ AssignSource(t)
        \/ AssignVol(t)
        \/ AssignMute(t)

SpecConc == InitConc /\ [][NextConc]_vars

----------------------------------------------------------------------------
(* Vocabulary of the properties *)

\* the I/O of a call whose exchange completed: recv returned bytes
IoComplete == <<"connect", "send", "recv", "close">>

\* the call that has just returned read a response from the device
GotResponse == pc = "returned" /\ last.io = IoComplete

\* the record signature of the protocol description: sync, class and type markers
ValidRecord(w) == Len(w) = RecordLen /\ w[1] = 2 /\ w[2] = 0 /\ w[4] = 5

\* the 14-byte window at Python offset i
Window(m, i) == SubSeq(m, i + 1, i + RecordLen)

WindowOffsets(m) == 0..(Len(m) - RecordLen)

Max(S) == CHOOSE x \in S : \A y \in S : y <= x

TableRet == [kind |-> "table", zone |-> 0, exc |-> ""]

EntryRet(z) == [kind |-> "entry", zone |-> z, exc |-> ""]

----------------------------------------------------------------------------
(* C1: for every response of at least 14 bytes, every window at a byte     *)
(* offset 0..length-14 is examined and every valid record is applied: a    *)
(* zone named by a valid record ends as that record (the last one naming   *)
(* it) decodes, wherever in the response the record stands, and a zone     *)
(* that no window names is untouched.  Two valid records for zones 2 and 5 *)
(* at offsets that are no multiples of 14 are the case in point.           *)
C1_SlidingWindowScan ==
    [][(GotResponse' /\ Len(last'.response) >= RecordLen)
         => \A z \in ZoneIds :
               LET m == last'.response
                   named == {i \in WindowOffsets(m) : Window(m, i)[3] = z}
                   valid == {i \in named : ValidRecord(Window(m, i))}
               IN  /\ valid # {}
                        => zones'[z] = apply_record(zones[z], Window(m, Max(valid)))
                   /\ named = {} => zones'[z] = zones[z]]_vars

(* C2: a response none of whose 14-byte windows carries the three markers  *)
(* (byte0 = 0x02, byte1 = 0x00, byte3 = 0x05) changes no zone entry,       *)
(* whatever its byte2 is.                                                  *)
C2_OnlyValidRecordsMutate ==
    [][(GotResponse'
          /\ \A i \in WindowOffsets(last'.response) :
                ~ValidRecord(Window(last'.response, i)))
         => zones' = zones]_vars

(* C3: after a response shorter than 14 bytes the six entries are what     *)
(* they were before the call, and parse returns the live table for a       *)
(* broadcast request and the entry of the requested zone for a request     *)
(* that names a zone of the table; query_zone and query_all hand that      *)
(* result to their caller.                                                 *)
C3_ShortResponseKeepsTable ==
    [][(GotResponse' /\ Len(last'.response) < RecordLen)
         => /\ zones' = zones
            /\ last'.zone = None => last'.inner = TableRet
            /\ (last'.zone # None /\ last'.zone[1] \in ZoneIds)
                  => last'.inner = EntryRet(last'.zone[1])
            /\ last'.op \in {"query_zone", "query_all"} => last'.ret = last'.inner]_vars

\* a query of zone 2 got 1..13 bytes back while zone 2 was already known
C3_Witness ==
    /\ GotResponse
    /\ last.op = "query_zone"
    /\ Len(last.response) \in 1..(RecordLen - 1)
    /\ last.ret = EntryRet(2)
    /\ zones[2].power # None

----------------------------------------------------------------------------
\* the builders that take a zone
ZoneOps == {"set_power", "toggle_mute", "set_source", "set_volume", "query_zone"}

\* the call that has just returned named a zone outside 1..6
ZoneOutOfRange == last.zone # None /\ last.zone[1] \notin 1..6

\* the windows of m that carry the three markers
ValidOffsets(m) == {i \in WindowOffsets(m) : ValidRecord(Window(m, i))}

(* C4: when a response holds a record with the three markers whose zone    *)
(* byte is outside 1..6, every valid record of the same response that      *)
(* names a zone in 1..6, before or after it, is still applied: each zone   *)
(* so named ends as the last valid record naming it decodes.               *)
C4_RejectedRecordSkippedOnly ==
    [][(GotResponse'
          /\ \E i \in ValidOffsets(last'.response) :
                Window(last'.response, i)[3] \notin 1..6)
         => \A z \in ZoneIds :
               LET m == last'.response
                   valid == {i \in ValidOffsets(m) : Window(m, i)[3] = z}
               IN  valid # {}
                      => zones'[z] = apply_record(zones[z], Window(m, Max(valid)))]_vars

(* C5: a builder that takes a zone, called with a zone outside 1..6, opens *)
(* no connection, sends no frame, leaves the table unchanged and returns   *)
(* None.                                                                   *)
C5_BadZoneIsNoOp ==
    [][(pc' = "returned" /\ last'.op \in ZoneOps /\ ZoneOutOfRange')
         => /\ last'.io = <<>>
            /\ last'.sent = <<>>
            /\ zones' = zones
            /\ last'.ret = NoneRet]_vars

(* C6: set_source with a zone outside 1..6 or an input outside 1..12, and  *)
(* set_volume with a percent outside 0..100, perform no network I/O and    *)
(* leave every zone entry unchanged.                                       *)
C6_RejectedArgumentsNoIO ==
    [][(pc' = "returned"
          /\ \/ last'.op = "set_source" /\ (ZoneOutOfRange' \/ last'.arg \notin 1..12)
             \/ last'.op = "set_volume" /\ last'.arg \notin 0..100)
         => /\ last'.io = <<>>
            /\ last'.sent = <<>>
            /\ zones' = zones]_vars

\* set_source(zone=7, input=3) has returned on a client whose zone 2 is known
C6_Witness ==
    /\ pc = "returned"
    /\ last.op = "set_source"
    /\ last.zone = Some(7)
    /\ last.arg = 3
    /\ last.io = <<>>
    /\ zones[2].power # None

(* C7: a round-trip that ends in a transport or protocol error (the        *)
(* connection is not made, the write or the read fails, the response is    *)
(* shorter than 14 bytes or holds no valid record) leaves every zone entry *)
(* as it was before the call.                                              *)
C7_FailureKeepsLastKnown ==
    [][(pc' = "returned" /\ last'.io # <<>>
          /\ \/ last'.io # IoComplete
             \/ ValidOffsets(last'.response) = {})
         => zones' = zones]_vars

(* C8: when the connection cannot be made, the write fails, the read times *)
(* out or the read returns zero bytes, send_command reports failure: it    *)
(* returns neither a zone entry nor the table, and no exception leaves it. *)
C8_TransportFaultReported ==
    [][(pc' = "returned" /\ last'.io # <<>>
          /\ (last'.io # IoComplete \/ last'.response = <<>>))
         => last'.inner = NoneRet]_vars

(* C9: with several contexts calling the same client, whenever no context  *)
(* is inside an update every zone entry is whole: all unknown, or the      *)
(* power, mute, source and volume of one single response record.           *)
C9_EntriesNeverTorn ==
    (\A t \in DOMAIN th : th[t].pc = "idle")
        => \A z \in ZoneIds :
              \/ zones[z] = InitEntry(z)
              \/ \E r \in ContextRecords :
                    r[3] = z /\ zones[z] = apply_record(InitEntry(z), r)

(* C10: in every reachable state each zone's volume is unknown or an       *)
(* integer in 0..100.                                                      *)
C10_VolumeInRange ==
    \A z \in ZoneIds : zones[z].vol = None \/ zones[z].vol[1] \in 0..100

(* C11: in every reachable state each zone's source is unknown or an       *)
(* integer in 1..12, a valid 1-based index into the 12 source names.       *)
C11_SourceInRange ==
    \A z \in ZoneIds : zones[z].source = None \/ zones[z].source[1] \in 1..12

\* the four fields of an entry that a status record carries
ObservedFields == {"power", "mute", "vol", "source"}

(* C12: a zone field that holds a concrete value is never set back to      *)
(* unknown by any later call, response or failure: every step keeps each   *)
(* known field known.                                                      *)
C12_NeverBackToUnknown ==
    [][\A z \in ZoneIds : \A f \in ObservedFields :
            zones[z][f] # None => zones'[z][f] # None]_vars

\* a call failed at connect while zone 2 was already known
C12_Witness ==
    /\ pc = "returned"
    /\ last.io = <<"connect_failed">>
    /\ \A f \in ObservedFields : zones[2][f] # None


\* the keys of one entry of the table
EntryKeys == {"zone", "power", "input", "vol", "mute", "source"}

\* the shape of the table that construction gives it
TableShape ==
    /\ DOMAIN zones = 1..6
    /\ \A k \in DOMAIN zones :
            /\ DOMAIN zones[k] = EntryKeys
            /\ zones[k].zone = k
            /\ zones[k].input = None

(* C13: the table starts with exactly the keys 1..6 and every field of     *)
(* every entry unknown; in every later state it still has exactly the keys *)
(* 1..6, each entry's zone equals its key, and input is unset.             *)
C13_TableShapeFixed ==
    /\ \A k \in ZoneIds : \A f \in ObservedFields : zones[k][f] = None
    /\ []TableShape

\* a response has been applied: zones 2 and 5 are known, zone 6 is not
C13_Witness ==
    /\ GotResponse
    /\ zones[2].power # None
    /\ zones[5].power # None
    /\ zones[6].power = None


(* C14: a record that is applied changes the entry named by its own zone   *)
(* byte and no other.  For every call that read a response, each entry     *)
(* that changed is the entry named by byte 2 of some 14-byte window of the *)
(* response and holds what that window decodes to; when the response is    *)
(* one record for a zone 1..6, exactly that entry is rewritten, whatever   *)
(* zone the call was made for, and the other five are unchanged.           *)
C14_RecordNamesItsZone ==
    [][(pc = "idle" /\ pc' = "returned" /\ last'.io = IoComplete) =>
          LET m == last'.response
          IN  /\ \A z \in ZoneIds :
                    zones'[z] # zones[z] =>
                        \E i \in WindowOffsets(m) :
                            /\ Window(m, i)[3] = z
                            /\ zones'[z] = apply_record(zones[z], Window(m, i))
              /\ (Len(m) = RecordLen /\ m[3] \in ZoneIds) =>
                    zones' = [zones EXCEPT ![m[3]] = apply_record(zones[m[3]], m)]]_vars

\* query_zone(2) was answered with one record naming zone 5: zone 5 is
\* known, zone 2 is not
C14_Witness ==
    /\ GotResponse
    /\ last.op = "query_zone"
    /\ last.zone = Some(2)
    /\ last.response = StatusRecord(2, 5, 0, 0, 0)
    /\ zones[5] = apply_record(InitEntry(5), last.response)
    /\ zones[2] = InitEntry(2)

\* a frame went out on the socket in the call that has just returned
FrameWritten == pc = "returned" /\ last.sent # <<>>

\* the zone the call was made for; the broadcast query names zone 0
RequestedZone == IF last.zone = None THEN 0 ELSE last.zone[1]

(* C15: every frame written to the socket is exactly six bytes, 0x02, a    *)
(* class, the zone, an opcode, a payload and a checksum, each in 0..255,   *)
(* and the checksum is the sum of the first five modulo 256, appended     *)
(* once; the frame 02 00 03 05 00 gets checksum 0x0A.                      *)
C15_FrameLayout ==
    /\ FrameWritten =>
          LET f == last.sent
          IN  /\ Len(f) = 6
              /\ \A i \in 1..Len(f) : f[i] \in 0..255
              /\ f[1] = 2
              /\ f[2] \in {0, 1}
              /\ f[3] = RequestedZone
              /\ f[4] \in {4, 5, 21}
              /\ f[6] = (f[1] + f[2] + f[3] + f[4] + f[5]) % 256
    /\ (FrameWritten /\ last.op = "query_zone" /\ last.zone = Some(3)) =>
          last.sent = <<2, 0, 3, 5, 0, 10>>

\* a frame was written whose first five bytes add up to more than 255
C15_Witness ==
    /\ FrameWritten
    /\ last.sent[1] + last.sent[2] + last.sent[3] + last.sent[4] + last.sent[5] > 255

\* floor(60 * percent / 100)
NativeLevel(percent) == (60 * percent) \div 100

(* C16: for every percent 0..100, set_volume for a zone 1..6 writes a frame*)
(* of class 0x01 and opcode 0x15 whose payload is 0x00 when the native     *)
(* level floor(60 * percent / 100) is 60 and 0xFF - (59 - level)           *)
(* otherwise; the payload is one byte, 0x00 for 100 and 0xC4 for 0.        *)
C16_VolumeFrame ==
    (pc = "returned" /\ last.op = "set_volume"
        /\ last.arg \in 0..100 /\ RequestedZone \in ZoneIds) =>
        /\ Len(last.sent) = 6
        /\ last.sent[2] = 1
        /\ last.sent[4] = 21
        /\ last.sent[5] = IF NativeLevel(last.arg) = 60 THEN 0
                          ELSE 255 - (59 - NativeLevel(last.arg))
        /\ last.sent[5] \in 0..255
        /\ last.arg = 100 => last.sent[5] = 0
        /\ last.arg = 0 => last.sent[5] = 196

\* set_volume(6, 100) has written its frame
C16_Witness ==
    /\ FrameWritten
    /\ last.op = "set_volume"
    /\ last.zone = Some(6)
    /\ last.arg = 100
    /\ last.sent[5] = 0

(* C19: when set_volume(zone, p) for p in 0..100 is answered by a record   *)
(* of that zone whose byte 9 repeats the payload byte of the frame, the    *)
(* zone's volume afterwards is the native level floor(60 * p / 100) that   *)
(* was set, at p = 100 too.                                                *)
C19_VolumeRoundTrip ==
    (GotResponse /\ last.op = "set_volume" /\ last.arg \in 0..100
        /\ Len(last.response) = RecordLen
        /\ last.response[3] = RequestedZone
        /\ last.response[10] = last.sent[5]) =>
        zones[RequestedZone].vol = Some(NativeLevel(last.arg))


\* bit n of byte b
Bit(b, n) == (b \div (2 ^ n)) % 2

OnIff(c) == IF c THEN "on" ELSE "off"

\* entry e holds what the 14-byte window w says
HoldsRecord(e, w) ==
    /\ e.power = Some(OnIff(Bit(w[5], 0) = 1))
    /\ e.mute = Some(OnIff(Bit(w[5], 1) = 1))
    /\ e.source = Some(w[9] + 1)
    /\ e.vol = Some(IF w[10] = 0 THEN 0 ELSE w[10] - 196)

(* C17: an applied record leaves its zone with power on iff bit 0 of byte 4*)
(* is set, mute on iff bit 1 of byte 4 is set, source = byte 8 + 1 and     *)
(* volume 0 if byte 9 is 0, else byte 9 - 196.  Every entry a call changes *)
(* holds these values for a 14-byte window of the response naming it, a    *)
(* one-record response for a zone 1..6 leaves its zone so, and the record  *)
(* with byte4 = 3, byte8 = 3, byte9 = 200 gives on, on, source 4, volume 4.*)
C17_DecodeRule ==
    [][(pc = "idle" /\ pc' = "returned" /\ last'.io = IoComplete) =>
          LET m == last'.response
          IN  /\ \A z \in ZoneIds :
                    zones'[z] # zones[z] =>
                        \E i \in WindowOffsets(m) :
                            Window(m, i)[3] = z /\ HoldsRecord(zones'[z], Window(m, i))
              /\ (Len(m) = RecordLen /\ m[3] \in ZoneIds) =>
                    HoldsRecord(zones'[m[3]], m)
              /\ m = StatusRecord(2, 2, 3, 3, 200) =>
                    /\ zones'[2].power = Some("on")
                    /\ zones'[2].mute = Some("on")
                    /\ zones'[2].source = Some(4)
                    /\ zones'[2].vol = Some(4)]_vars

\* a record with power off and mute on (byte4 = 2) has been applied to zone 4
C17_Witness ==
    /\ GotResponse
    /\ last.response = StatusRecord(2, 4, 2, 12, 196)
    /\ zones[4].power = Some("off")
    /\ zones[4].mute = Some("on")


\* the call that has just returned was made with arguments in range
PassedValidation ==
    \/ last.op = "query_all"
    \/ last.op \in {"set_power", "toggle_mute", "query_zone"} /\ RequestedZone \in 1..6
    \/ last.op = "set_source" /\ RequestedZone \in 1..6 /\ last.arg \in 1..12
    \/ last.op = "set_volume" /\ RequestedZone \in 1..6 /\ last.arg \in 0..100

\* how many elements of the sequence s equal x
RECURSIVE Count(_, _)
Count(s, x) ==
    IF s = <<>> THEN 0 ELSE (IF Head(s) = x THEN 1 ELSE 0) + Count(Tail(s), x)

\* the socket events that mean a connection was asked for
ConnectAttempts(io) == Count(io, "connect") + Count(io, "connect_failed")

(* C18: a call that passes validation makes exactly one connection attempt;*)
(* every call that reaches the socket makes one attempt, in the order      *)
(* connect, write, read, close, each at most once; whenever the connection *)
(* was opened, close is the last event of the call, on success, on a       *)
(* failed write, on a failed read and when parse raises, so no connection  *)
(* is open when the call returns.                                          *)
C18_OneConnectionClosed ==
    pc = "returned" =>
        /\ PassedValidation => ConnectAttempts(last.io) = 1
        /\ last.io # <<>> =>
              /\ ConnectAttempts(last.io) = 1
              /\ last.io \in { <<"connect_failed">>,
                                <<"connect", "send_failed", "close">>,
                                <<"connect", "send", "recv_failed", "close">>,
                                <<"connect", "send", "recv", "close">> }
              /\ Count(last.io, "connect") = 1 =>
                    /\ last.io[Len(last.io)] = "close"
                    /\ Count(last.io, "close") = 1

\* recv timed out on an open connection, and the call still ended with close
C18_Witness ==
    /\ pc = "returned"
    /\ PassedValidation
    /\ last.io = <<"connect", "send", "recv_failed", "close">>
    /\ last.ret = NoneRet


(* C20: between the calls of a sequential run every zone has either all of *)
(* power, mute, volume and source unknown or all four concrete.            *)
C20_AllOrNothing ==
    \A z \in ZoneIds :
        \/ \A f \in ObservedFields : zones[z][f] = None
        \/ \A f \in ObservedFields : zones[z][f] # None

\* between two calls, zone 2 is known in all four fields and zone 6 in none
C20_Witness ==
    /\ pc = "idle"
    /\ \A f \in ObservedFields : zones[2][f] # None
    /\ \A f \in ObservedFields : zones[6][f] = None


====
